---- MODULE Spec2Model ----
(***************************************************************************)
(* DropCast bookmark mailer: the Raindrop.io client (RaindropClient), the  *)
(* record model (BookmarkModel) and the paginated fetch loop               *)
(* (getRecentBookmarks), modelled from src/unnamed/part_003.               *)
(*                                                                         *)
(* Japanese message and placeholder strings of the source are written as   *)
(* ASCII stand-ins; the stand-in of each string is given where it is       *)
(* defined.                                                                *)
(***************************************************************************)
EXTENDS Integers, Sequences, FiniteSets, TLC

VARIABLES
    upstream,      \* what the Raindrop.io server holds and reports (environment)
    now,           \* the clock read by `new Date()`
    pc,            \* position of the getRecentBookmarks call
    page,          \* local `page`
    allBookmarks,  \* local `allBookmarks`
    hasMorePages,  \* local `hasMorePages`
    requests,      \* page indices passed to client.get, in call order
    responses,     \* per fulfilled request: what response.data held
    converted,     \* number of pages whose items went through the batch converter
    result,        \* value the call resolved with
    error,         \* error the call rejected with
    rejection,     \* the axios error of the request that failed
    warned,        \* console.warn of the page limit was emitted
    apiItems,      \* argument of a fromRaindropApiResponseArray call
    batchPc,       \* position of that call
    batchResult,   \* its outcome
    fromDate,      \* argument `fromDate` of getRecentBookmarks
    toDate,        \* argument `toDate` of getRecentBookmarks
    createdParam,  \* the `created` parameter of the page requests
    modelInput,    \* argument of a BookmarkModel construction or conversion
    modelPc,       \* which of the two is called, and whether it is done
    modelResult,   \* its outcome
    bookmarks,     \* argument `bookmarks` of formatBookmarksToEmailBody
    options,       \* argument `options` of formatBookmarksToEmailBody
    formatPc,      \* position of that call
    emailBody,     \* the text it returned
    handlerPc,     \* position of the Lambda `handler` invocation
    configuration, \* what the Parameter Store read gave loadConfiguration
    sends,         \* the sendWeeklyDigest calls made, in call order
    caught,        \* the error the handler's catch block received
    response       \* the value the handler resolved with

vars == <<upstream, now, pc, page, allBookmarks, hasMorePages, requests,
          responses, converted, result, error, rejection, warned,
          apiItems, batchPc, batchResult, fromDate, toDate, createdParam,
          modelInput, modelPc, modelResult,
          bookmarks, options, formatPc, emailBody,
          handlerPc, configuration, sends, caught, response>>

fetchVars == <<upstream, pc, page, allBookmarks, hasMorePages, requests,
               responses, converted, result, error, rejection, warned,
               fromDate, toDate, createdParam>>

batchVars == <<apiItems, batchPc, batchResult>>

itemVars == <<modelInput, modelPc, modelResult>>

formatVars == <<bookmarks, options, formatPc, emailBody>>

handlerVars == <<handlerPc, configuration, sends, caught, response>>

\* the calls the specification at hand does not make
otherVars == <<batchVars, itemVars, formatVars, handlerVars>>

-----------------------------------------------------------------------------
(* JavaScript values, tagged with what `typeof` / `instanceof` tell apart. *)

Undefined == [t |-> "undefined"]
Null == [t |-> "null"]
Num(n) == [t |-> "number", v |-> n]
Str(s) == [t |-> "string", v |-> s]
Bool(b) == [t |-> "boolean", v |-> b]
Arr(s) == [t |-> "array", v |-> s]
DateOf(ms) == [t |-> "date", valid |-> TRUE, ms |-> ms]
InvalidDate == [t |-> "date", valid |-> FALSE, ms |-> 0]

\* typeof x
TypeOf(x) ==
    IF x.t \in {"null", "array", "date", "object"} THEN "object" ELSE x.t

\* the truthiness test of `!x`, `x || y`, `x ? a : b` and Boolean(x)
Truthy(x) ==
    CASE x.t = "undefined" -> FALSE
      [] x.t = "null" -> FALSE
      [] x.t = "number" -> x.v # 0
      [] x.t = "string" -> x.v # ""
      [] x.t = "boolean" -> x.v
      [] OTHER -> TRUE

\* x ?? y
Nullish(x) == x.t \in {"undefined", "null"}

Min(a, b) == IF a < b THEN a ELSE b
Max(a, b) == IF a > b THEN a ELSE b

-----------------------------------------------------------------------------
(* Strings the model draws from.                                           *)

\* 'タイトルなし' (title placeholder) and '未分類' (folder placeholder)
TitlePlaceholder == "untitled"
FolderPlaceholder == "unsorted"

\* strings `new URL(s)` accepts; any other string is rejected
WellFormedUrls == {"https://example.com/1", "https://example.com/2"}

\* strings `new Date(s)` parses, with the time it yields
ParsableDates == {"2024-01-01T10:00:00.000Z", "2024-01-01T11:00:00.000Z"}
DateMs(s) == IF s = "2024-01-01T10:00:00.000Z" THEN 10 ELSE 11

\* new URL(s) does not throw
UrlParses(s) == s \in WellFormedUrls

\* new Date(x) for a string or a number
NewDate(x) ==
    CASE x.t = "string" ->
             IF x.v \in ParsableDates THEN DateOf(DateMs(x.v)) ELSE InvalidDate
      [] x.t = "number" -> DateOf(x.v)
      [] OTHER -> InvalidDate

-----------------------------------------------------------------------------
(* BookmarkModel                                                           *)

\* outcome of code that returns a value or throws an Error(message)
Return(v) == [ok |-> TRUE, value |-> v, message |-> ""]
Throw(msg) == [ok |-> FALSE, value |-> Undefined, message |-> msg]

\* a raw item as the API sends it; an omitted property is Undefined
RawItem(id, title, link, tags, important, created) ==
    [t |-> "object", _id |-> id, title |-> title, link |-> link,
     tags |-> tags, important |-> important, created |-> created]

\* validate(): the list `errors`; stand-ins for the source's messages
\*   'id は必須の数値です'                    -> "id: required number"
\*   'url は必須の文字列です'                 -> "url: required string"
\*   'title は文字列である必要があります'     -> "title: string"
\*   'folder は文字列である必要があります'    -> "folder: string"
\*   'isFavorite はブール値である必要があります' -> "isFavorite: boolean"
\*   'createdAt は有効な日付である必要があります' -> "createdAt: valid date"
\*   'url は有効なURL形式である必要があります' -> "url: well-formed"
validate(data) ==
    (IF ~Truthy(data.id) \/ TypeOf(data.id) # "number"
        THEN <<"id: required number">> ELSE <<>>)
    \o (IF ~Truthy(data.url) \/ TypeOf(data.url) # "string"
        THEN <<"url: required string">> ELSE <<>>)
    \o (IF TypeOf(data.title) # "string" THEN <<"title: string">> ELSE <<>>)
    \o (IF TypeOf(data.folder) # "string" THEN <<"folder: string">> ELSE <<>>)
    \o (IF TypeOf(data.isFavorite) # "boolean"
        THEN <<"isFavorite: boolean">> ELSE <<>>)
    \o (IF data.createdAt.t # "date" \/ ~data.createdAt.valid
        THEN <<"createdAt: valid date">> ELSE <<>>)
    \o (IF Truthy(data.url) /\ ~(data.url.t = "string" /\ UrlParses(data.url.v))
        THEN <<"url: well-formed">> ELSE <<>>)

\* new BookmarkModel(data): copies the six fields, then validate();
\* 'ブックマークデータ検証エラー: ...' -> "validation error"
BookmarkModel(data) ==
    IF validate(data) # <<>>
    THEN Throw("validation error")
    ELSE Return([id |-> data.id, title |-> data.title, url |-> data.url,
                 folder |-> data.folder, isFavorite |-> data.isFavorite,
                 createdAt |-> data.createdAt])

\* apiItem.tags.at(0): TypeError unless tags is an array
\* (tags that are a string are outside the item shapes the model draws)
TagsAtThrows(apiItem) == apiItem.tags.t # "array"
TagsAt0(apiItem) ==
    IF Len(apiItem.tags.v) > 0 THEN apiItem.tags.v[1] ELSE Undefined

\* BookmarkModel.fromRaindropApiResponse(apiItem), `clock` being new Date()
\*   'APIレスポンスアイテムが無効です'       -> "invalid item"
\*   'APIレスポンスにIDが含まれていません'   -> "no id"
\*   'APIレスポンスにリンクが含まれていません' -> "no link"
\*   TypeError of tags.at                    -> "TypeError"
fromRaindropApiResponse(apiItem, clock) ==
    IF ~Truthy(apiItem) \/ TypeOf(apiItem) # "object" THEN Throw("invalid item")
    ELSE IF apiItem.t # "object" THEN Throw("no id")
    ELSE IF ~Truthy(apiItem._id) THEN Throw("no id")
    ELSE IF ~Truthy(apiItem.link) THEN Throw("no link")
    ELSE IF TagsAtThrows(apiItem) THEN Throw("TypeError")
    ELSE BookmarkModel(
           [id |-> apiItem._id,
            title |-> IF Truthy(apiItem.title) THEN apiItem.title
                      ELSE Str(TitlePlaceholder),
            url |-> apiItem.link,
            folder |-> IF Nullish(TagsAt0(apiItem)) THEN Str(FolderPlaceholder)
                       ELSE TagsAt0(apiItem),
            isFavorite |-> Bool(Truthy(apiItem.important)),
            createdAt |-> IF Truthy(apiItem.created) THEN NewDate(apiItem.created)
                          ELSE DateOf(clock)])

\* a variant of the loop that gives up at the first item that fails
RECURSIVE ConvertUntilFailure(_, _, _)
ConvertUntilFailure(items, n, clock) ==
    IF n = 0 THEN <<>>
    ELSE LET before == ConvertUntilFailure(items, n - 1, clock)
             r == fromRaindropApiResponse(items[n], clock)
         IN  IF Len(before) = n - 1 /\ r.ok THEN Append(before, r.value)
             ELSE before

\* the forEach of fromRaindropApiResponseArray: `bookmarks` after the first
\* n items; an item whose conversion throws is skipped (catch)
RECURSIVE ConvertPrefix(_, _, _)
ConvertPrefix(items, n, clock) ==
    IF n = 0 THEN <<>>
    ELSE LET r == fromRaindropApiResponse(items[n], clock)
         IN  IF r.ok THEN Append(ConvertPrefix(items, n - 1, clock), r.value)
             ELSE ConvertPrefix(items, n - 1, clock)

\* BookmarkModel.fromRaindropApiResponseArray(apiItems)
\*   'APIレスポンスアイテムは配列である必要があります' -> "not an array"
fromRaindropApiResponseArray(items, clock) ==
    IF items.t # "array" THEN Throw("not an array")
    ELSE Return(ConvertPrefix(items.v, Len(items.v), clock))

-----------------------------------------------------------------------------
(* RaindropClient.#handleError, the response interceptor                   *)

\* an error axios rejects with: error.response (status, data.errorMessage),
\* error.request, error.message
AxiosError(hasResponse, status, errorMessage, hasRequest) ==
    [hasResponse |-> hasResponse, status |-> status,
     errorMessage |-> errorMessage, hasRequest |-> hasRequest,
     message |-> "axios error"]

\* an Error: its message, and the status / originalError properties set on it
\* (Undefined when the code sets none).  A message is its fixed text, plus
\* the status and the errorMessage the default case interpolates.
Message(text, code, detail) == [text |-> text, code |-> code, detail |-> detail]
ErrorOf(message, status, originalError) ==
    [message |-> message, status |-> status, originalError |-> originalError]

\* a variant of the switch without `case 403`
StatusMessageNoForbidden(status, errorMessage) ==
    CASE status = 401 -> [text |-> "auth failed", code |-> 0, detail |-> ""]
      [] status = 429 -> [text |-> "rate limited", code |-> 0, detail |-> ""]
      [] status \in {500, 502, 503, 504} ->
             [text |-> "server error", code |-> 0, detail |-> ""]
      [] OTHER -> [text |-> "api error", code |-> status, detail |-> errorMessage]

\* stand-ins for the messages of the switch:
\*   '認証に失敗しました。...'                -> "auth failed"
\*   'アクセスが禁止されています。...'        -> "forbidden"
\*   'レート制限を超過しました。...'          -> "rate limited"
\*   'Raindrop.ioサーバーエラーです。...'     -> "server error"
\*   `Raindrop.io APIエラー (${status})`       -> "api error" with the status
\*   'ネットワークエラー: ...'                 -> "network error"
StatusMessage(status, errorMessage) ==
    CASE status = 401 -> Message("auth failed", 0, "")
      [] status = 403 -> Message("forbidden", 0, "")
      [] status = 429 -> Message("rate limited", 0, "")
      [] status \in {500, 502, 503, 504} -> Message("server error", 0, "")
      [] OTHER -> Message("api error", status, errorMessage)

\* #handleError(error): the error the returned promise rejects with
handleError(err) ==
    IF err.hasResponse
    THEN ErrorOf(StatusMessage(err.status, err.errorMessage), Num(err.status), err)
    ELSE IF err.hasRequest
    THEN ErrorOf(Message("network error", 0, ""), Undefined, err)
    ELSE ErrorOf(Message(err.message, 0, ""), Undefined, Undefined)

-----------------------------------------------------------------------------
(* The upstream listing API, as the environment of one call                *)

\* const perPage = 50
perPage == 50
\* the page limit of the safety check `page > 100`
MaxPage == 100

\* number of pages, beyond the first, a small upstream may hold
MaxSmallPages == 2
\* number of pages beyond MaxPage a large upstream may hold
ExcessPages == 2
\* a count larger than anything an upstream holds
HugeCount == perPage * (MaxPage + ExcessPages + 2)

\* which of the held items are well-formed
\*   "valid"    every item
\*   "firstBad" every item but the first of each page, which has no _id
\*   "sparse"   only the first item of each page; the others have no _id
\*   "allBad"   none: every item has no link
\*   "untagged" every item, but the odd ones carry no tags property
Shapes == {"valid", "firstBad", "sparse", "allBad", "untagged"}
\* how the reported count moves after page 0
Drifts == {"same", "zero", "huge"}

SmallTotals ==
    {n \in 0..(perPage * (MaxSmallPages + 1)) :
        \E k \in 0..MaxSmallPages, d \in {-1, 0, 1, perPage \div 2} :
            n = perPage * k + d}
SmallCounts == (SmallTotals \ {perPage - 1, 2 * perPage - 1}) \cup {HugeCount}
LargeTotals == {perPage * k : k \in {MaxPage, MaxPage + 1, MaxPage + ExcessPages}}

Upstreams ==
    [held : SmallTotals, count0 : SmallCounts, drift : Drifts, shape : Shapes]
    \cup
    {[held |-> h, count0 |-> c, drift |-> "same", shape |-> s] :
        h \in LargeTotals, c \in LargeTotals \cup {HugeCount},
        s \in {"sparse", "allBad"}}
    \cup
    {[held |-> perPage * MaxPage, count0 |-> perPage * MaxPage,
      drift |-> "same", shape |-> "valid"]}

\* the g-th (from 0) matching item the upstream holds
ItemAt(u, g) ==
    LET id == IF \/ u.shape = "firstBad" /\ g % perPage = 0
                 \/ u.shape = "sparse" /\ g % perPage # 0
              THEN Undefined ELSE Num(g + 1)
        link == IF u.shape = "allBad" THEN Undefined
                ELSE Str(IF g % 2 = 0 THEN "https://example.com/1"
                         ELSE "https://example.com/2")
        tags == IF u.shape = "untagged" /\ g % 2 = 1 THEN Undefined
                ELSE Arr(<<Str(IF g % 3 = 0 THEN "Tech" ELSE "News")>>)
    IN  RawItem(id, Str("title"), link, tags, Bool(g % 2 = 0),
                Str("2024-01-01T10:00:00.000Z"))

\* items of the response for `page`, perpage = 50
PageLen(u, p) == Min(perPage, Max(0, u.held - perPage * p))
PageItems(u, p) ==
    Arr([i \in 1..PageLen(u, p) |-> ItemAt(u, perPage * p + i - 1)])

\* count of the response for `page`
PageCount(u, p) ==
    IF p = 0 \/ u.drift = "same" THEN u.count0
    ELSE IF u.drift = "zero" THEN 0 ELSE HugeCount

\* response.data.items: the list, or a malformed payload
ItemsForms == {"array", "absent", "null", "string"}
ItemsOf(u, p, form) ==
    CASE form = "array" -> PageItems(u, p)
      [] form = "absent" -> Undefined
      [] form = "null" -> Null
      [] OTHER -> Str("items")

\* the ways a request fails
RequestErrors ==
    {AxiosError(TRUE, s, "", TRUE) : s \in {401, 403, 404, 429, 500, 501, 503}}
    \cup {AxiosError(FALSE, 0, "", TRUE), AxiosError(FALSE, 0, "", FALSE)}

-----------------------------------------------------------------------------
(* RaindropClient.getRecentBookmarks                                       *)

\* 'Raindrop.io APIからの無効なレスポンス形式' -> "invalid response format"
InvalidFormatError ==
    ErrorOf(Message("invalid response format", 0, ""), Undefined, Undefined)

\* a variant without the Array.isArray test
InvalidItemsLax(items) == ~Truthy(items)

\* !items || !Array.isArray(items)
InvalidItems(items) == ~Truthy(items) \/ items.t # "array"

\* variants of the continuation test: `<=` for `<`, the count test left
\* out, the page-size test left out
MorePagesInclusive(itemsLength, accumulated, count) ==
    itemsLength = perPage /\ accumulated <= count
MorePagesFullOnly(itemsLength, accumulated, count) ==
    itemsLength = perPage
MorePagesCountOnly(itemsLength, accumulated, count) ==
    accumulated < count

\* a continuation test that goes on after a short page
MorePagesWhileItems(itemsLength, accumulated, count) ==
    itemsLength > 0 /\ accumulated < count

\* hasMorePages = items.length === perPage && allBookmarks.length < count
MorePages(itemsLength, accumulated, count) ==
    itemsLength = perPage /\ accumulated < count

\* a variant that skips a page
NextPageSkip(p) == p + 2

\* page++
NextPage(p) == p + 1

\* a loop without the safety check
LimitReachedNever(p) == FALSE

\* the safety check `if (page > 100)`
LimitReached(p) == p > MaxPage

\* what the log keeps of a fulfilled response: the form of data.items, its
\* length, data.count, and how many records the converter kept
Response(form, length, count, kept) ==
    [form |-> form, length |-> length, count |-> count, kept |-> kept]

\* no batch conversion, no record construction, no formatting under way
IdleBatch == apiItems = Undefined /\ batchPc = "off" /\ batchResult = Undefined
IdleItem == modelInput = Undefined /\ modelPc = "off" /\ modelResult = Undefined
IdleFormat ==
    /\ bookmarks = Undefined
    /\ options = Undefined
    /\ formatPc = "off"
    /\ emailBody = Undefined

\* no handler invocation under way
IdleHandler ==
    /\ handlerPc = "off"
    /\ configuration = Undefined
    /\ sends = <<>>
    /\ caught = Undefined
    /\ response = Undefined

\* no getRecentBookmarks call under way: its locals before the call
IdleFetch ==
    /\ page = 0
    /\ allBookmarks = <<>>
    /\ hasMorePages = TRUE
    /\ responses = <<>>
    /\ converted = 0
    /\ result = Undefined
    /\ error = Undefined
    /\ warned = FALSE
    /\ fromDate = Null
    /\ toDate = Null
    /\ createdParam = Undefined

\* `fromDate.setDate(fromDate.getDate() - 7)`: the clock counts days
SevenDays == 7

\* the arguments of the call: a Date, null, or left out
DateArgs == {Undefined, Null} \cup {DateOf(d) : d \in {2, 4, 5, 8, 12, 20}}

\* the date arguments vary for the upstreams that answer in one page
ArgsFor(u) ==
    IF u.held <= 1 /\ u.count0 = u.held /\ u.drift = "same" /\ u.shape = "valid"
    THEN DateArgs \X DateArgs
    ELSE {<<Undefined, Undefined>>}

\* the parameter defaults `fromDate = null, toDate = null`
Param(arg) == IF arg = Undefined THEN Null ELSE arg

\* `fromDate = new Date(); fromDate.setDate(fromDate.getDate() - 7)`
DefaultFromDateForward(clock) == DateOf(clock + SevenDays)
DefaultFromDate(clock) == DateOf(clock - SevenDays)

\* `toDate = new Date()`
DefaultToDate(clock) == DateOf(clock)

\* `if (!fromDate) {...}` and `if (!toDate) {...}`
FromDateOf(arg, clock) ==
    IF ~Truthy(Param(arg)) THEN DefaultFromDate(clock) ELSE Param(arg)
ToDateOf(arg, clock) ==
    IF ~Truthy(Param(arg)) THEN DefaultToDate(clock) ELSE Param(arg)

\* date.toISOString() of a valid Date: the text that names its instant
toISOString(date) == [iso |-> date.ms]

\* `${fromDateStr}..${toDateStr}`
CreatedFilter(from, to) ==
    [from |-> toISOString(from), to |-> toISOString(to)]

Init ==
    /\ upstream \in Upstreams
    /\ \E args \in ArgsFor(upstream) : fromDate = args[1] /\ toDate = args[2]
    /\ createdParam = Undefined
    /\ now = 12
    /\ pc = "start"
    /\ page = 0
    /\ allBookmarks = <<>>
    /\ hasMorePages = TRUE
    /\ requests = <<>>
    /\ responses = <<>>
    /\ converted = 0
    /\ result = Undefined
    /\ error = Undefined
    /\ rejection = Undefined
    /\ warned = FALSE
    /\ IdleBatch
    /\ IdleItem
    /\ IdleFormat
    /\ IdleHandler

\* entry of getRecentBookmarks up to the first `await this.client.get`
getRecentBookmarks ==
    /\ pc = "start"
    /\ page' = 0
    /\ allBookmarks' = <<>>
    /\ hasMorePages' = TRUE
    /\ requests' = Append(requests, 0)
    /\ createdParam' = CreatedFilter(FromDateOf(fromDate, now), ToDateOf(toDate, now))
    /\ pc' = "awaiting"
    /\ UNCHANGED <<upstream, now, responses, converted, result, error,
                   rejection, warned, fromDate, toDate>>
    /\ UNCHANGED <<batchVars, itemVars, formatVars>>
    /\ UNCHANGED handlerVars

\* the awaited request is fulfilled: the loop body after the await, up to the
\* next await, the return or the throw (catch logs and rethrows; the locals
\* of the call are gone then)
PageFulfilled ==
    /\ pc = "awaiting"
    /\ \E form \in ItemsForms :
        LET items == ItemsOf(upstream, page, form)
            count == PageCount(upstream, page)
            parsed == fromRaindropApiResponseArray(items, now)
        IN  IF InvalidItems(items) \/ ~parsed.ok
            THEN /\ pc' = "rejected"
                 /\ error' = IF InvalidItems(items) THEN InvalidFormatError
                             ELSE ErrorOf(Message(parsed.message, 0, ""),
                                          Undefined, Undefined)
                 /\ allBookmarks' = <<>>
                 /\ responses' = Append(responses, Response(form, 0, count, 0))
                 /\ UNCHANGED <<page, hasMorePages, requests, converted,
                                result, warned>>
            ELSE LET all == allBookmarks \o parsed.value
                     more == MorePages(Len(items.v), Len(all), count)
                     next == NextPage(page)
                 IN  /\ allBookmarks' = all
                     /\ hasMorePages' = more
                     /\ page' = next
                     /\ responses' = Append(responses,
                                        Response(form, Len(items.v), count,
                                                 Len(parsed.value)))
                     /\ converted' = converted + 1
                     /\ warned' = LimitReached(next)
                     /\ IF ~LimitReached(next) /\ more
                        THEN /\ requests' = Append(requests, next)
                             /\ pc' = "awaiting"
                             /\ UNCHANGED result
                        ELSE /\ pc' = "returned"
                             /\ result' = Arr(all)
                             /\ UNCHANGED requests
                     /\ UNCHANGED error
    /\ UNCHANGED <<upstream, now, rejection>>
    /\ UNCHANGED <<otherVars, fromDate, toDate, createdParam>>

\* a variant that asks for the failed page once more
PageRejectedRetry ==
    /\ pc = "awaiting"
    /\ \E e \in RequestErrors :
        /\ rejection' = e
        /\ IF Len(requests) = Len(responses) + 1
           THEN /\ requests' = Append(requests, page)
                /\ UNCHANGED <<pc, error, allBookmarks>>
           ELSE /\ pc' = "rejected"
                /\ error' = handleError(e)
                /\ allBookmarks' = <<>>
                /\ UNCHANGED requests
    /\ UNCHANGED <<upstream, now, page, hasMorePages, responses,
                   converted, result, warned>>
    /\ UNCHANGED <<otherVars, fromDate, toDate, createdParam>>

\* the awaited request is rejected: the interceptor translates the error,
\* catch logs and rethrows it; the locals of the call are gone
PageRejected ==
    /\ pc = "awaiting"
    /\ \E e \in RequestErrors :
        /\ rejection' = e
        /\ error' = handleError(e)
    /\ pc' = "rejected"
    /\ allBookmarks' = <<>>
    /\ UNCHANGED <<upstream, now, page, hasMorePages, requests, responses,
                   converted, result, warned>>
    /\ UNCHANGED <<otherVars, fromDate, toDate, createdParam>>

Next == getRecentBookmarks \/ PageFulfilled \/ PageRejected

Spec == Init /\ [][Next]_vars

\* the call under the assumption that it is started and that every pending
\* request is eventually answered or fails
SpecLive ==
    /\ Init
    /\ [][Next]_vars
    /\ WF_vars(getRecentBookmarks)
    /\ WF_vars(PageFulfilled \/ PageRejected)

-----------------------------------------------------------------------------
(* Properties of getRecentBookmarks                                        *)

CeilDiv(a, b) == (a + b - 1) \div b

\* the call returned and every page response reported the count c
ReturnedWithCount(c) ==
    /\ pc = "returned"
    /\ \A i \in 1..Len(responses) : responses[i].count = c

\* every fetched page before page ceil(c / 50) - 1 returned exactly 50 items
NonFinalPagesFull(c) ==
    \A i \in 1..Len(responses) :
        i - 1 < CeilDiv(c, perPage) - 1 => responses[i].length = perPage

\* every item of every fetched page converted
NothingDropped ==
    \A i \in 1..Len(responses) : responses[i].kept = responses[i].length

\* C1 as stated: when every page reports the same count and each non-final
\* page returns exactly 50 items, exactly ceil(count / 50) page requests are
\* issued.
C1_RequestsAreCeilOfCount ==
    \A c \in {responses[i].count : i \in 1..Len(responses)} :
        (ReturnedWithCount(c) /\ NonFinalPagesFull(c))
            => Len(requests) = CeilDiv(c, perPage)

\* the page of index ceil(c / 50) - 1 was fetched and returned fewer than 50
\* items
FinalPageShort(c) ==
    /\ c >= 1
    /\ Len(responses) >= CeilDiv(c, perPage)
    /\ responses[CeilDiv(c, perPage)].length < perPage

\* C1 amended: when every page reports the same count, 1 <= count <= 5000,
\* each non-final page returns exactly 50 items, and the final page returns
\* fewer than 50 items or no item of any page is dropped by the converter,
\* exactly ceil(count / 50) page requests are issued.
C1_RequestsAreCeilOfCountInRange ==
    \A c \in {responses[i].count : i \in 1..Len(responses)} :
        (/\ ReturnedWithCount(c)
         /\ NonFinalPagesFull(c)
         /\ FinalPageShort(c) \/ NothingDropped
         /\ 1 <= c
         /\ c <= perPage * MaxPage)
            => Len(requests) = CeilDiv(c, perPage)

\* count = 75: page 0 with 50 items, page 1 with 25, two requests
C1_Witness ==
    /\ ReturnedWithCount(75)
    /\ NonFinalPagesFull(75)
    /\ NothingDropped
    /\ requests = <<0, 1>>
    /\ responses[2].length = 25

\* C2: no more than 100 page requests are issued in one call and no page
\* index of 100 or above is requested.
C2_AtMostHundredPages ==
    /\ Len(requests) <= MaxPage
    /\ \A i \in 1..Len(requests) : requests[i] < MaxPage

\* a step of the call that issues a request for a further page
RequestsFurtherPage ==
    /\ Len(requests) >= 1
    /\ Len(requests') = Len(requests) + 1

C4_ShortFirstPageStops ==
    (Len(responses) >= 1 /\ responses[1].form = "array"
       /\ responses[1].length < perPage)
        => /\ pc = "returned"
           /\ requests = <<0>>
           /\ Len(responses) = 1

\* a short first page whose count announces more than one page
C4_Witness ==
    /\ pc = "returned"
    /\ Len(responses) = 1
    /\ responses[1].length = perPage - 1
    /\ responses[1].count > perPage

\* conversion of one item, looked at from outside the batch loop
Converts(item) == fromRaindropApiResponse(item, now).ok
RecordOf(item) == fromRaindropApiResponse(item, now).value

\* the records of the items of one page that convert, in page order
SurvivorsOf(items) ==
    LET kept == SelectSeq(items, Converts)
    IN  [i \in 1..Len(kept) |-> RecordOf(kept[i])]

\* the survivors of pages 0 .. n-1 of the upstream, page after page
RECURSIVE SurvivorsUpTo(_, _)
SurvivorsUpTo(u, n) ==
    IF n = 0 THEN <<>>
    ELSE SurvivorsUpTo(u, n - 1) \o SurvivorsOf(PageItems(u, n - 1).v)

\* C5: the requested page indices are 0, 1, 2, ... without gap or repeat, a
\* page is requested only after every earlier page went through the
\* converter, and the returned sequence is the concatenation of each page's
\* surviving records in page order.
C5_SequentialPages ==
    /\ \A i \in 1..Len(requests) : requests[i] = i - 1
    /\ Len(requests) <= converted + 1
    /\ pc = "returned" =>
           result = Arr(SurvivorsUpTo(upstream, Len(responses)))

\* three pages fetched, each leaving records, the first item of each dropped
C5_Witness ==
    /\ pc = "returned"
    /\ requests = <<0, 1, 2>>
    /\ \A i \in 1..3 : responses[i].kept >= 1
    /\ responses[1].kept < responses[1].length
    /\ Len(result.v) = responses[1].kept + responses[2].kept + responses[3].kept

\* C6: a response whose items list is absent or not an array, on the first
\* or on a later page, makes the call reject with the protocol error; that
\* request is the last one and no result is returned.
C6_MalformedPageFails ==
    \A i \in 1..Len(responses) :
        responses[i].form # "array" =>
            /\ pc = "rejected"
            /\ error = InvalidFormatError
            /\ result = Undefined
            /\ i = Len(responses)
            /\ Len(requests) = i

\* the second page is malformed after the first one left records
C6_Witness ==
    /\ pc = "rejected"
    /\ Len(responses) = 2
    /\ responses[1].kept > 0
    /\ responses[2].form = "string"

\* C7: when a page request fails the call rejects with the translated
\* error, the failed page is the last request and was requested once, and
\* the records of earlier pages are not returned.
C7_NoRetry ==
    rejection # Undefined =>
        /\ pc = "rejected"
        /\ error = handleError(rejection)
        /\ result = Undefined
        /\ Len(requests) = Len(responses) + 1
        /\ \A i \in 1..Len(requests) : requests[i] = i - 1

\* the request for page 1 fails after page 0 left records
C7_Witness ==
    /\ rejection # Undefined
    /\ pc = "rejected"
    /\ requests = <<0, 1>>
    /\ responses[1].kept > 0

-----------------------------------------------------------------------------
(* #handleError on its own: every way an axios request can fail            *)

\* statuses axios rejects for (validateStatus: outside 200..299)
ErrorStatuses == (300..599)

AxiosErrors ==
    {AxiosError(TRUE, s, m, TRUE) : s \in ErrorStatuses, m \in {"", "quota"}}
    \cup {AxiosError(FALSE, 0, "", TRUE), AxiosError(FALSE, 0, "", FALSE)}

IdleUpstream == [held |-> 0, count0 |-> 0, drift |-> "same", shape |-> "valid"]

InitError ==
    /\ upstream = IdleUpstream
    /\ now = 12
    /\ pc = "intercept"
    /\ fromDate = Null
    /\ toDate = Null
    /\ createdParam = Undefined
    /\ page = 0
    /\ allBookmarks = <<>>
    /\ hasMorePages = TRUE
    /\ requests = <<0>>
    /\ responses = <<>>
    /\ converted = 0
    /\ result = Undefined
    /\ error = Undefined
    /\ rejection \in AxiosErrors
    /\ warned = FALSE
    /\ IdleBatch
    /\ IdleItem
    /\ IdleFormat
    /\ IdleHandler

\* the response interceptor's rejection handler: (error) => #handleError(error)
Intercept ==
    /\ pc = "intercept"
    /\ error' = handleError(rejection)
    /\ pc' = "rejected"
    /\ UNCHANGED <<upstream, now, page, allBookmarks, hasMorePages, requests,
                   responses, converted, result, rejection, warned>>
    /\ UNCHANGED <<otherVars, fromDate, toDate, createdParam>>

NextError == Intercept

SpecError == InitError /\ [][NextError]_vars

\* the error kind a translated error stands for, read off its message
ErrorClass(e) ==
    CASE e.message.text \in {"auth failed", "forbidden"} -> "AUTH_ERROR"
      [] e.message.text = "rate limited" -> "RATE_LIMITED"
      [] e.message.text = "server error" -> "UPSTREAM_UNAVAILABLE"
      [] e.message.text = "network error" -> "NETWORK_ERROR"
      [] e.message.text = "api error" -> "API_ERROR"
      [] OTHER -> "UNTRANSLATED"

\* what is common to the stated and the amended C8
C8_Common(e) ==
    /\ (rejection.hasResponse /\ rejection.status \in {401, 403})
           => ErrorClass(e) = "AUTH_ERROR"
    /\ (rejection.hasResponse /\ rejection.status = 429)
           => ErrorClass(e) = "RATE_LIMITED"
    /\ (~rejection.hasResponse /\ rejection.hasRequest)
           => ErrorClass(e) = "NETWORK_ERROR"
    /\ rejection.hasResponse => e.status = Num(rejection.status)
    /\ (rejection.hasResponse \/ rejection.hasRequest)
           => e.originalError = rejection

-----------------------------------------------------------------------------
(* BookmarkModel.fromRaindropApiResponseArray on its own                   *)

\* longest array handed to the batch converter
MaxBatchLen == 3

ADate == Str("2024-01-01T10:00:00.000Z")
Url1 == Str("https://example.com/1")
Url2 == Str("https://example.com/2")

\* the raw items the arrays are made of
ItemKinds ==
    { RawItem(Num(1), Str("one"), Url1, Arr(<<Str("Tech")>>), Bool(TRUE), ADate),
      RawItem(Num(2), Str("two"), Url2, Arr(<<Str("News")>>), Bool(FALSE), ADate),
      \* no _id / _id: null / no link at all
      RawItem(Undefined, Str("t"), Url1, Arr(<<Str("Tech")>>), Bool(FALSE), ADate),
      RawItem(Null, Undefined, Url1, Undefined, Undefined, Undefined),
      RawItem(Num(3), Str("t"), Undefined, Arr(<<Str("Tech")>>), Bool(FALSE), ADate),
      RawItem(Undefined, Str("t"), Undefined, Undefined, Undefined, Undefined),
      \* a link that is no URL
      RawItem(Num(4), Str("t"), Str("not a url"), Arr(<<Str("Tech")>>),
              Bool(FALSE), ADate),
      \* nothing but _id and link
      RawItem(Num(5), Undefined, Url1, Undefined, Undefined, Undefined),
      \* no tags property, all else given
      RawItem(Num(6), Str("six"), Url2, Undefined, Bool(TRUE), ADate),
      \* an empty tag list, no title, no created
      RawItem(Num(7), Undefined, Url1, Arr(<<>>), Undefined, Undefined),
      \* a string _id
      RawItem(Str("api-id-123"), Str("t"), Url1, Arr(<<Str("Tech")>>),
              Bool(TRUE), ADate),
      \* a created that does not parse
      RawItem(Num(8), Str("t"), Url1, Arr(<<Str("Tech")>>), Bool(FALSE),
              Str("yesterday")),
      \* not objects
      Null,
      Str("item") }

RECURSIVE SeqsUpTo(_, _)
SeqsUpTo(S, n) ==
    IF n = 0 THEN {<<>>}
    ELSE LET shorter == SeqsUpTo(S, n - 1)
         IN  shorter \cup {Append(q, x) : q \in shorter, x \in S}

BatchInputs ==
    {Arr(q) : q \in SeqsUpTo(ItemKinds, MaxBatchLen)}
    \cup {Str("not-array"), Undefined, Null}

InitBatch ==
    /\ upstream = IdleUpstream
    /\ now = 12
    /\ pc = "off"
    /\ fromDate = Null
    /\ toDate = Null
    /\ createdParam = Undefined
    /\ page = 0
    /\ allBookmarks = <<>>
    /\ hasMorePages = TRUE
    /\ requests = <<>>
    /\ responses = <<>>
    /\ converted = 0
    /\ result = Undefined
    /\ error = Undefined
    /\ rejection = Undefined
    /\ warned = FALSE
    /\ apiItems \in BatchInputs
    /\ batchPc = "call"
    /\ batchResult = Undefined
    /\ IdleItem
    /\ IdleFormat
    /\ IdleHandler

\* a call of BookmarkModel.fromRaindropApiResponseArray(apiItems)
ConvertBatch ==
    /\ batchPc = "call"
    /\ batchResult' = fromRaindropApiResponseArray(apiItems, now)
    /\ batchPc' = "done"
    /\ UNCHANGED apiItems
    /\ UNCHANGED <<now, fetchVars, itemVars, formatVars, handlerVars>>

NextBatch == ConvertBatch

SpecBatch == InitBatch /\ [][NextBatch]_vars

\* C9: fromRaindropApiResponseArray fails only when its input is not an
\* array; for an array it returns exactly the records of the items that
\* convert, in their original relative order, so never more than the input.
C9_BatchKeepsConvertible ==
    batchPc = "done" =>
        /\ batchResult.ok <=> apiItems.t = "array"
        /\ batchResult.ok =>
               /\ batchResult.value = SurvivorsOf(apiItems.v)
               /\ Len(batchResult.value) <= Len(apiItems.v)

\* a failing item between two items that convert
C9_Witness ==
    /\ batchPc = "done"
    /\ apiItems.t = "array"
    /\ Len(apiItems.v) = 3
    /\ Converts(apiItems.v[1])
    /\ ~Converts(apiItems.v[2])
    /\ Converts(apiItems.v[3])
    /\ apiItems.v[1] # apiItems.v[3]
    /\ Len(batchResult.value) = 2
    /\ batchResult.value[1].id = apiItems.v[1]._id
    /\ batchResult.value[2].id = apiItems.v[3]._id

\* the item has no identifier or no URL
MissingIdOrLink(item) ==
    item.t # "object" \/ Nullish(item._id) \/ Nullish(item.link)

\* the item is valid under the upstream item shape: _id (integer or string)
\* and link (a URL) present; title, tags, important and created optional
ShapeValid(item) ==
    /\ item.t = "object"
    /\ item._id.t \in {"number", "string"} /\ Truthy(item._id)
    /\ item.link.t = "string" /\ UrlParses(item.link.v)
    /\ item.title.t \in {"undefined", "string"}
    /\ item.tags.t \in {"undefined", "array"}
    /\ item.created.t = "undefined"
         \/ (item.created.t = "string" /\ item.created.v \in ParsableDates)

\* a is a subsequence of b
RECURSIVE IsSubseq(_, _)
IsSubseq(a, b) ==
    IF a = <<>> THEN TRUE
    ELSE IF b = <<>> THEN FALSE
    ELSE IF Head(a) = Head(b) THEN IsSubseq(Tail(a), Tail(b))
    ELSE IsSubseq(a, Tail(b))

IdsOfItems(items) == [i \in 1..Len(items) |-> items[i]._id]
IdsOfRecords(records) == [i \in 1..Len(records) |-> records[i].id]

\* C10: in a batch, an item without _id or link fails conversion and is not
\* in the output, while every sibling valid under the upstream item shape
\* is produced, in original relative order.
C10_ValidSiblingsProduced ==
    (batchPc = "done" /\ apiItems.t = "array") =>
        LET items == apiItems.v
            valid == SelectSeq(items, ShapeValid)
            Present(x) == ~MissingIdOrLink(x)
        IN  /\ \A i \in 1..Len(items) :
                   MissingIdOrLink(items[i]) => ~Converts(items[i])
            /\ batchResult.ok
            /\ Len(batchResult.value) <= Len(SelectSeq(items, Present))
            /\ IsSubseq(IdsOfItems(valid), IdsOfRecords(batchResult.value))

-----------------------------------------------------------------------------
(* One record: `new BookmarkModel(data)` and                                *)
(* `BookmarkModel.fromRaindropApiResponse(apiItem)` (specification          *)
(* SpecItem).                                                               *)

\* values a caller may pass for the fields of `data`
IdValues == {Undefined, Null, Num(0), Num(1), Num(42), Str(""), Str("test-id-123")}
DataInputs ==
    [id : IdValues,
     title : {Str("title"), Str(""), Undefined, Num(5)},
     url : {Url1, Str("not-a-url"), Str(""), Undefined},
     folder : {Str("Tech"), Str(""), Undefined},
     isFavorite : {Bool(TRUE), Bool(FALSE), Undefined, Num(1)},
     createdAt : {DateOf(10), InvalidDate, ADate, Undefined}]

\* raw items the API may send, and values that are no item at all
TagsValues ==
    {Undefined, Null, Arr(<<>>), Arr(<<Str("Tech")>>), Arr(<<Str("")>>),
     Arr(<<Str("Tech"), Str("News")>>), Arr(<<Str(""), Str("News")>>)}
CreatedValues == {Undefined, Null, ADate, Str("yesterday"), Str("")}
ItemInputs ==
    {RawItem(id, title, link, tags, important, cr) :
        id \in IdValues,
        title \in {Undefined, Str("title"), Str("")},
        link \in {Undefined, Url1, Str("not-a-url")},
        tags \in TagsValues,
        important \in {Undefined, Bool(TRUE), Bool(FALSE)},
        cr \in CreatedValues}
    \cup {Undefined, Null, Str("item")}

InitItem ==
    /\ upstream = IdleUpstream
    /\ now = 12
    /\ pc = "off"
    /\ requests = <<>>
    /\ rejection = Undefined
    /\ IdleFetch
    /\ IdleBatch
    /\ IdleFormat
    /\ IdleHandler
    /\ \/ modelPc = "construct" /\ modelInput \in DataInputs
       \/ modelPc = "convert" /\ modelInput \in ItemInputs
    /\ modelResult = Undefined

\* new BookmarkModel(data)
Construct ==
    /\ modelPc = "construct"
    /\ modelResult' = BookmarkModel(modelInput)
    /\ modelPc' = "constructed"
    /\ UNCHANGED <<modelInput, now, fetchVars, batchVars, formatVars,
                   handlerVars>>

\* BookmarkModel.fromRaindropApiResponse(apiItem)
Convert ==
    /\ modelPc = "convert"
    /\ modelResult' = fromRaindropApiResponse(modelInput, now)
    /\ modelPc' = "converted"
    /\ UNCHANGED <<modelInput, now, fetchVars, batchVars, formatVars,
                   handlerVars>>

NextItem == Construct \/ Convert

SpecItem == InitItem /\ [][NextItem]_vars

\* a non-empty identifier, string or integer
NonEmptyId(id) ==
    \/ id.t = "string" /\ id.v # ""
    \/ id.t = "number" /\ id.v # 0

\* C11: a record whose id is any non-empty identifier, string or integer,
\* passes validation when its other fields are valid: the construction, and
\* the conversion of a raw item with a string _id, succeed and keep the id.
C11_AnyNonEmptyIdIsValid ==
    /\ (/\ modelPc = "constructed"
        /\ NonEmptyId(modelInput.id)
        /\ BookmarkModel([modelInput EXCEPT !.id = Num(1)]).ok)
           => (modelResult.ok /\ modelResult.value.id = modelInput.id)
    /\ (/\ modelPc = "converted"
        /\ modelInput.t = "object"
        /\ NonEmptyId(modelInput._id)
        /\ fromRaindropApiResponse([modelInput EXCEPT !._id = Num(1)], now).ok)
           => (modelResult.ok /\ modelResult.value.id = modelInput._id)

\* the raw item has an id and a link
HasIdAndLink(item) ==
    item.t = "object" /\ Truthy(item._id) /\ Truthy(item.link)

\* the item's first tag, present and non-empty
HasFirstTag(item) ==
    /\ item.tags.t = "array"
    /\ Len(item.tags.v) > 0
    /\ item.tags.v[1].t = "string"
    /\ item.tags.v[1].v # ""

\* the cases the placeholder stands for: no tags field, an empty tag list,
\* an empty first tag
LacksFirstTag(item) ==
    \/ item.tags = Undefined
    \/ item.tags.t = "array" /\ Len(item.tags.v) = 0
    \/ item.tags.t = "array" /\ Len(item.tags.v) > 0 /\ item.tags.v[1] = Str("")

\* C12: for a raw item with an id and a link, conversion never fails because
\* of the folder source (it succeeds whenever the same item with one tag
\* does); the folder is the first tag when present and non-empty, and the
\* placeholder when there is no tags field, no tag, or an empty first tag; a
\* produced record has a non-empty folder.
C12_FolderFromFirstTagOrPlaceholder ==
    (/\ modelPc = "converted"
     /\ HasIdAndLink(modelInput)
     /\ HasFirstTag(modelInput) \/ LacksFirstTag(modelInput)
     /\ fromRaindropApiResponse(
            [modelInput EXCEPT !.tags = Arr(<<Str("Tech")>>)], now).ok)
        => /\ modelResult.ok
           /\ HasFirstTag(modelInput)
                 => modelResult.value.folder = modelInput.tags.v[1]
           /\ LacksFirstTag(modelInput)
                 => modelResult.value.folder = Str(FolderPlaceholder)
           /\ modelResult.value.folder.v # ""

\* the creation timestamp is absent, or is text `new Date` cannot parse
CreatedAbsent(item) == item.created \in {Undefined, Null}
CreatedUnparsable(item) ==
    item.created.t = "string" /\ item.created.v \notin ParsableDates

\* C13: for a raw item with an id and a link (that converts when its
\* creation timestamp is a parsable one), an absent and an unparsable creation
\* timestamp both give createdAt = the current time at conversion: the item
\* converts and is kept.
C13_CreatedAtDefaultsToNow ==
    (/\ modelPc = "converted"
     /\ HasIdAndLink(modelInput)
     /\ CreatedAbsent(modelInput) \/ CreatedUnparsable(modelInput)
     /\ fromRaindropApiResponse(
            [modelInput EXCEPT !.created = ADate], now).ok)
        => /\ modelResult.ok
           /\ modelResult.value.createdAt = DateOf(now)

-----------------------------------------------------------------------------
(* EmailFormatter.formatBookmarksToEmailBody (specification SpecFormat).    *)
(* A text is the sequence of its characters; a run of Japanese text that    *)
(* the formatter emits as a whole is one symbol:                            *)
(*   '今週のブックマークダイジェスト'              -> "WeeklyDigest"        *)
(*   '合計'                                        -> "Total"               *)
(*   '件のブックマークが見つかりました。'          -> "Found"               *)
(*   '今週は新しいブックマークがありませんでした。' -> "NothingNew"          *)
(*   '未分類'                                      -> "Unsorted"            *)
(*   '★'                                          -> "STAR"                *)
(*   a katakana and a kanji letter of a folder name -> "ko", "sei"          *)
(* Folder names that are property names of Object.prototype, and titles or  *)
(* names holding a line break, are outside the inputs drawn here.           *)

\* a text value, as opposed to undefined or null
Text(cs) == [t |-> "text", cs |-> cs]

LF == "\n"
Digits == <<"0", "1", "2", "3", "4", "5", "6", "7", "8", "9">>

\* String(n) of a non-negative integer
RECURSIVE Decimal(_)
Decimal(n) ==
    IF n < 10 THEN <<Digits[n + 1]>>
    ELSE Append(Decimal(n \div 10), Digits[(n % 10) + 1])

\* the number an all-digit text writes
RECURSIVE NumberOf(_)
NumberOf(cs) ==
    IF cs = <<>> THEN 0
    ELSE 10 * NumberOf(SubSeq(cs, 1, Len(cs) - 1))
         + (CHOOSE d \in 0..9 : Digits[d + 1] = cs[Len(cs)])

\* parts.join(sep)
RECURSIVE Join(_, _)
Join(parts, sep) ==
    IF parts = <<>> THEN <<>>
    ELSE IF Len(parts) = 1 THEN parts[1]
    ELSE parts[1] \o sep \o Join(Tail(parts), sep)

\* '未分類' of `bookmark.folder || '未分類'`
UnsortedFolder == <<"Unsorted">>

\* ' %{color: red}★%'
FavoriteMark ==
    <<" ", "%", "{", "c", "o", "l", "o", "r", ":", " ", "r", "e", "d", "}",
      "STAR", "%">>

\* primary collation weight of a character under localeCompare(_, 'ja'):
\* digits, then Latin letters (a one-letter name in lower case before the
\* same letter in upper case), then kana, then kanji
CollationWeight(c) ==
    CASE c \in {Digits[i] : i \in 1..10} ->
             10 + (CHOOSE d \in 0..9 : Digits[d + 1] = c)
      [] c = "a" -> 29
      [] c = "A" -> 30
      [] c = "B" -> 31
      [] c = "ko" -> 50
      [] c = "sei" -> 60
      [] c = "Unsorted" -> 61
      [] OTHER -> 99

\* a.localeCompare(b, 'ja') for names that differ in a primary weight or are
\* equal: negative, zero or positive
RECURSIVE localeCompare(_, _)
localeCompare(a, b) ==
    IF a = <<>> /\ b = <<>> THEN 0
    ELSE IF a = <<>> THEN -1
    ELSE IF b = <<>> THEN 1
    ELSE IF CollationWeight(a[1]) # CollationWeight(b[1])
         THEN CollationWeight(a[1]) - CollationWeight(b[1])
    ELSE localeCompare(Tail(a), Tail(b))

\* a property key that is an array index ("0", "2", "10", not "02"): an
\* ordinary object lists such keys first, in ascending numeric order
IsIntegerKey(k) ==
    /\ k # <<>>
    /\ \A i \in 1..Len(k) : k[i] \in {Digits[d] : d \in 1..10}
    /\ Len(k) > 1 => k[1] # "0"

\* insert an integer key into an ascending list of integer keys
RECURSIVE InsertIntegerKey(_, _)
InsertIntegerKey(keys, k) ==
    IF keys = <<>> THEN <<k>>
    ELSE IF NumberOf(k) < NumberOf(keys[1]) THEN <<k>> \o keys
    ELSE <<keys[1]>> \o InsertIntegerKey(Tail(keys), k)

RECURSIVE IntegerKeys(_)
IntegerKeys(keys) ==
    IF keys = <<>> THEN <<>>
    ELSE IF IsIntegerKey(keys[Len(keys)])
         THEN InsertIntegerKey(IntegerKeys(SubSeq(keys, 1, Len(keys) - 1)),
                               keys[Len(keys)])
    ELSE IntegerKeys(SubSeq(keys, 1, Len(keys) - 1))

\* Object.keys / Object.entries order of an object whose keys were created
\* in the order `keys`: integer keys ascending, then the others as created
OwnKeys(keys) ==
    IntegerKeys(keys) \o SelectSeq(keys, LAMBDA k : ~IsIntegerKey(k))

\* `bookmark.folder || '未分類'`
FolderNameExact(bookmark) == bookmark.folder
FolderNameOf(bookmark) ==
    IF bookmark.folder = <<>> THEN UnsortedFolder ELSE bookmark.folder

\* keys of `grouped` in creation order: each folder name at its first record
RECURSIVE GroupedKeys(_)
GroupedKeys(bs) ==
    IF bs = <<>> THEN <<>>
    ELSE LET before == GroupedKeys(SubSeq(bs, 1, Len(bs) - 1))
             name == FolderNameOf(bs[Len(bs)])
         IN  IF \E i \in 1..Len(before) : before[i] = name THEN before
             ELSE Append(before, name)

\* a grouping that takes names differing only in case for one folder
GroupedIgnoringCase(bs, name) ==
    LET Folded(n) == IF n = <<"a">> THEN <<"A">> ELSE n
    IN  SelectSeq(bs, LAMBDA b : Folded(FolderNameOf(b)) = Folded(name))

\* grouped[folderName]: the records pushed under the name, in input order
Grouped(bs, name) == SelectSeq(bs, LAMBDA b : FolderNameOf(b) = name)

\* Array.prototype.sort with (a, b) => a.localeCompare(b, 'ja'): a stable
\* sort; insert `k` after the elements that do not compare greater
RECURSIVE InsertFolder(_, _)
InsertFolder(sorted, k) ==
    IF sorted = <<>> THEN <<k>>
    ELSE IF localeCompare(k, sorted[1]) < 0 THEN <<k>> \o sorted
    ELSE <<sorted[1]>> \o InsertFolder(Tail(sorted), k)

RECURSIVE SortFolders(_)
SortFolders(keys) ==
    IF keys = <<>> THEN <<>>
    ELSE InsertFolder(SortFolders(SubSeq(keys, 1, Len(keys) - 1)),
                      keys[Len(keys)])

\* the comparator (a, b) => new Date(b.createdAt) - new Date(a.createdAt)
CompareCreatedAtAscending(a, b) == a.createdAt - b.createdAt
CompareCreatedAt(a, b) == b.createdAt - a.createdAt

\* Array.prototype.sort with that comparator (stable)
RECURSIVE InsertBookmark(_, _)
InsertBookmark(sorted, b) ==
    IF sorted = <<>> THEN <<b>>
    ELSE IF CompareCreatedAt(b, sorted[1]) < 0 THEN <<b>> \o sorted
    ELSE <<sorted[1]>> \o InsertBookmark(Tail(sorted), b)

RECURSIVE SortBookmarks(_)
SortBookmarks(bs) ==
    IF bs = <<>> THEN <<>>
    ELSE InsertBookmark(SortBookmarks(SubSeq(bs, 1, Len(bs) - 1)), bs[Len(bs)])

\* a grouping whose date sort acts on the caller's array
BookmarksAfterGroupingSortedInPlace(bs) == SortBookmarks(bs)

\* the caller's array after #groupBookmarksByFolder: forEach reads it, and
\* push and sort act on the arrays of `grouped`, which are new
BookmarksAfterGrouping(bs) == bs

\* #groupBookmarksByFolder as Object.entries sees its result: the pairs
\* <<folder name, records>> of sortedGrouped in enumeration order
groupBookmarksByFolder(bs) ==
    LET sortedFolders == SortFolders(OwnKeys(GroupedKeys(bs)))
        entries == OwnKeys(sortedFolders)
    IN  [i \in 1..Len(entries) |->
            <<entries[i], SortBookmarks(Grouped(bs, entries[i]))>>]

\* #formatSingleBookmark
formatSingleBookmarkMarked(bookmark) ==
    <<"*", " ", "\"">> \o bookmark.title \o <<"\"", ":">> \o bookmark.url
    \o FavoriteMark
formatSingleBookmark(bookmark) ==
    <<"*", " ", "\"">> \o bookmark.title \o <<"\"", ":">> \o bookmark.url
    \o (IF bookmark.isFavorite THEN FavoriteMark ELSE <<>>)

\* #formatFolderSection: `h4. ${folderName}`, then a line per record
RECURSIVE BookmarkLines(_)
BookmarkLines(bs) ==
    IF bs = <<>> THEN <<>>
    ELSE <<LF>> \o formatSingleBookmark(bs[1]) \o BookmarkLines(Tail(bs))

formatFolderSection(folderName, bs) ==
    <<"h", "4", ".", " ">> \o folderName \o BookmarkLines(bs)

\* the ` (${dateRange})` both headers add `if (dateRange)`
DateRangeLabel(dateRange) ==
    IF dateRange.t = "text" /\ dateRange.cs # <<>>
    THEN <<" ", "(">> \o dateRange.cs \o <<")">>
    ELSE <<>>

\* #formatHeader
formatHeader(bookmarkCount, dateRange) ==
    <<"WeeklyDigest">> \o DateRangeLabel(dateRange)
    \o <<LF, LF, "Total", " ">> \o Decimal(bookmarkCount) \o <<" ", "Found">>

\* #formatEmptyMessage
formatEmptyMessage(dateRange) ==
    <<"WeeklyDigest">> \o DateRangeLabel(dateRange)
    \o <<LF, LF, "NothingNew">>

\* `const { dateRange = null, includeHeader = true } = options`, options = {}
DateRangeOf(opts) ==
    IF opts = Undefined \/ opts.dateRange = Undefined THEN Null
    ELSE opts.dateRange
IncludeHeaderOf(opts) ==
    IF opts = Undefined \/ opts.includeHeader = Undefined THEN TRUE
    ELSE Truthy(opts.includeHeader)

\* `!bookmarks || bookmarks.length === 0`
NoBookmarksNullOnly(bs) == bs \in {Undefined, Null}
NoBookmarks(bs) == bs \in {Undefined, Null} \/ Len(bs.v) = 0

\* formatBookmarksToEmailBody(bookmarks, options)
formatBookmarksToEmailBody(bs, opts) ==
    IF NoBookmarks(bs) THEN formatEmptyMessage(DateRangeOf(opts))
    ELSE LET entries == groupBookmarksByFolder(bs.v)
             sections == [i \in 1..Len(entries) |->
                             formatFolderSection(entries[i][1], entries[i][2])]
         IN  (IF IncludeHeaderOf(opts)
              THEN formatHeader(Len(bs.v), DateRangeOf(opts)) \o <<LF, LF>>
              ELSE <<>>)
             \o Join(sections, <<LF, LF>>)

\* number of records of the longest list formatted
MaxRecords == 3

\* folder names: Latin, digits only, kana, kanji, empty, the placeholder
FolderNames ==
    {<<"A">>, <<"a">>, <<"B">>, <<"2">>, <<"1", "0">>, <<"ko">>, <<"sei">>,
     <<>>, UnsortedFolder}

\* what a record of the list is like, but for its title
RecordKinds ==
    {[folder |-> f, isFavorite |-> FALSE, createdAt |-> 10, star |-> FALSE] :
        f \in FolderNames}
    \cup
    {[folder |-> <<"A">>, isFavorite |-> fav, createdAt |-> 11, star |-> FALSE] :
        fav \in BOOLEAN}
    \cup
    {[folder |-> <<"2">>, isFavorite |-> TRUE, createdAt |-> 10, star |-> FALSE],
     [folder |-> <<"ko">>, isFavorite |-> FALSE, createdAt |-> 11, star |-> FALSE],
     [folder |-> <<"A">>, isFavorite |-> FALSE, createdAt |-> 10, star |-> TRUE]}

\* the i-th record of a list: its title names its place in the list
BookmarkAt(kind, i) ==
    [title |-> <<"T", Digits[i + 1]>>
               \o (IF kind.star THEN <<"STAR">> ELSE <<>>),
     url |-> <<"u", Digits[i + 1]>>,
     folder |-> kind.folder,
     isFavorite |-> kind.isFavorite,
     createdAt |-> kind.createdAt]

BookmarkLists ==
    {Arr([i \in 1..Len(kinds) |-> BookmarkAt(kinds[i], i)]) :
        kinds \in SeqsUpTo(RecordKinds, MaxRecords)}
    \cup {Undefined, Null}

\* the label of a date range
RangeLabel == Text(<<"1", "/", "1", "-", "1", "/", "7">>)

FormatOptions ==
    {Undefined,
     [dateRange |-> Undefined, includeHeader |-> Bool(FALSE)],
     [dateRange |-> Null, includeHeader |-> Bool(TRUE)],
     [dateRange |-> RangeLabel, includeHeader |-> Undefined],
     [dateRange |-> RangeLabel, includeHeader |-> Bool(FALSE)],
     [dateRange |-> Text(<<>>), includeHeader |-> Bool(TRUE)]}

InitFormat ==
    /\ upstream = IdleUpstream
    /\ now = 12
    /\ pc = "off"
    /\ requests = <<>>
    /\ rejection = Undefined
    /\ IdleFetch
    /\ IdleBatch
    /\ IdleItem
    /\ IdleHandler
    /\ bookmarks \in BookmarkLists
    /\ options \in FormatOptions
    /\ formatPc = "call"
    /\ emailBody = Undefined

\* the caller's array after the call
BookmarksAfter(bs) ==
    IF NoBookmarks(bs) THEN bs ELSE Arr(BookmarksAfterGrouping(bs.v))

\* EmailFormatter.formatBookmarksToEmailBody(bookmarks, options)
Format ==
    /\ formatPc = "call"
    /\ emailBody' = formatBookmarksToEmailBody(bookmarks, options)
    /\ bookmarks' = BookmarksAfter(bookmarks)
    /\ formatPc' = "done"
    /\ UNCHANGED <<options, now, fetchVars, batchVars, itemVars, handlerVars>>

\* EmailFormatter.generateEmailContent(bookmarks, { startDate, endDate }):
\* the formatter is called with the label of the range, or null when a date
\* is missing, and includeHeader true
generateEmailContent ==
    /\ formatPc = "call"
    /\ \E dateRange \in {RangeLabel, Null} :
          /\ options' = [dateRange |-> dateRange, includeHeader |-> Bool(TRUE)]
          /\ emailBody' = formatBookmarksToEmailBody(bookmarks, options')
    /\ bookmarks' = BookmarksAfter(bookmarks)
    /\ formatPc' = "done"
    /\ UNCHANGED <<now, fetchVars, batchVars, itemVars, handlerVars>>

NextFormat == Format \/ generateEmailContent

SpecFormat == InitFormat /\ [][NextFormat]_vars

\* the lines of a text
RECURSIVE SplitLines(_)
SplitLines(text) ==
    IF \A i \in 1..Len(text) : text[i] # LF THEN <<text>>
    ELSE LET k == CHOOSE i \in 1..Len(text) :
                    text[i] = LF /\ \A j \in 1..(i - 1) : text[j] # LF
         IN  <<SubSeq(text, 1, k - 1)>>
             \o SplitLines(SubSeq(text, k + 1, Len(text)))

StartsWith(line, prefix) ==
    Len(line) >= Len(prefix) /\ SubSeq(line, 1, Len(prefix)) = prefix
EndsWith(line, suffix) ==
    /\ Len(line) >= Len(suffix)
    /\ SubSeq(line, Len(line) - Len(suffix) + 1, Len(line)) = suffix

\* number of places of `text` where `token` occurs
Occurrences(text, token) ==
    Cardinality({i \in 1..Len(text) :
        /\ i + Len(token) - 1 <= Len(text)
        /\ SubSeq(text, i, i + Len(token) - 1) = token})

\* the call has returned, and what it was given and what it returned
Formatted == formatPc = "done"
NonEmptyList == bookmarks.t = "array" /\ Len(bookmarks.v) > 0
Records == bookmarks.v
BodyLines == SplitLines(emailBody)

HeadingPrefix == <<"h", "4", ".", " ">>
BookmarkPrefix == <<"*", " ", "\"">>
TotalPrefix == <<"Total", " ">>
IsHeadingLine(line) == StartsWith(line, HeadingPrefix)
IsBookmarkLine(line) == StartsWith(line, BookmarkPrefix)
IsTotalLine(line) == StartsWith(line, TotalPrefix)

\* the places of the heading lines and of the bookmark lines among `lines`
HeadingPlaces(lines) == {p \in 1..Len(lines) : IsHeadingLine(lines[p])}
BookmarkPlaces(lines) == {p \in 1..Len(lines) : IsBookmarkLine(lines[p])}

\* what follows 'h4. ' on a heading line
HeadingText(line) == SubSeq(line, Len(HeadingPrefix) + 1, Len(line))

\* the heading the line at place p stands under, `hs` being the places of
\* the headings
HeadingOver(hs, p) ==
    CHOOSE h \in hs : h < p /\ \A g \in hs : g < p => g <= h

\* `* "title":url` of a record
PlainLine(b) == BookmarkPrefix \o b.title \o <<"\"", ":">> \o b.url

\* the record a bookmark line renders (titles name the place in the list)
RecordOfLine(line) ==
    CHOOSE i \in 1..Len(Records) : StartsWith(line, PlainLine(Records[i]))
RendersARecord(line) ==
    \E i \in 1..Len(Records) : StartsWith(line, PlainLine(Records[i]))

\* C15: the folder sections of a non-empty list appear in ascending
\* locale-collation order of their folder names, for every set of folder
\* names, names made only of digits included.
C15_SectionsInCollationOrder ==
    (Formatted /\ NonEmptyList) =>
        LET lines == BodyLines
            hs == HeadingPlaces(lines)
        IN  \A p, q \in hs :
                p < q => localeCompare(HeadingText(lines[p]),
                                       HeadingText(lines[q])) < 0

\* C16: within each folder section the records appear in descending
\* createdAt order, and records with equal createdAt in their input order.
C16_NewestFirstStable ==
    (Formatted /\ NonEmptyList) =>
        LET lines == BodyLines
            hs == HeadingPlaces(lines)
            bs == BookmarkPlaces(lines)
        IN  /\ \A p \in bs : RendersARecord(lines[p])
            /\ \A p, q \in bs :
                 (p < q /\ HeadingOver(hs, p) = HeadingOver(hs, q)) =>
                    LET i == RecordOfLine(lines[p])
                        j == RecordOfLine(lines[q])
                    IN  \/ Records[i].createdAt > Records[j].createdAt
                        \/ /\ Records[i].createdAt = Records[j].createdAt
                           /\ i < j

\* a section holding an older record, a newer one, and a tie, in that order
C16_Witness ==
    /\ Formatted
    /\ NonEmptyList
    /\ Len(Records) = 3
    /\ \A i \in 1..3 : Records[i].folder = <<"A">>
    /\ Records[1].createdAt = 10
    /\ Records[2].createdAt = 11
    /\ Records[3].createdAt = 10

\* the names under which the records of the list are filed
FolderNamesUsed == {FolderNameOf(Records[i]) : i \in 1..Len(Records)}

\* C17: every folder section starts with a heading line of the exact form
\* 'h4. [' + folder name + ']', and every record line has the exact form
\* '* "' + title + '":' + url (before the favorite marker, if any).
C17_BracketedHeadings ==
    (Formatted /\ NonEmptyList) =>
        LET lines == BodyLines
            hs == HeadingPlaces(lines)
        IN  /\ hs # {}
            /\ \A p \in hs : \E name \in FolderNamesUsed :
                 lines[p] = HeadingPrefix \o <<"[">> \o name \o <<"]">>
            /\ \A p \in BookmarkPlaces(lines) : \E i \in 1..Len(Records) :
                 \/ lines[p] = PlainLine(Records[i])
                 \/ lines[p] = PlainLine(Records[i]) \o FavoriteMark

\* the marker discipline of the body
FavoritesCount ==
    Cardinality({i \in 1..Len(Records) : Records[i].isFavorite})
MarkerDiscipline ==
    LET lines == BodyLines
        markers == Occurrences(emailBody, FavoriteMark)
    IN  /\ \A p \in BookmarkPlaces(lines) :
             /\ RendersARecord(lines[p])
             /\ EndsWith(lines[p], FavoriteMark)
                  <=> Records[RecordOfLine(lines[p])].isFavorite
        /\ markers = FavoritesCount
        /\ Occurrences(emailBody, <<"STAR">>) = markers

\* C18 (as stated): a record's line ends with ' %{color: red}★%' iff the
\* record is a favorite, the markers are as many as the favorites, and '★'
\* appears nowhere else in the body.
C18_MarkerOnlyOnFavorites ==
    (Formatted /\ NonEmptyList) => MarkerDiscipline

\* no title, URL or folder name of the list, nor the date range label,
\* holds a '★'
HoldsStar(cs) == \E k \in 1..Len(cs) : cs[k] = "STAR"
StarFreeInput ==
    /\ \A i \in 1..Len(Records) :
         /\ ~HoldsStar(Records[i].title)
         /\ ~HoldsStar(Records[i].url)
         /\ ~HoldsStar(Records[i].folder)
    /\ DateRangeOf(options).t = "text" => ~HoldsStar(DateRangeOf(options).cs)

\* C18 (amended): the same, for lists in which no title, URL or folder name,
\* and no date range label, holds a '★' itself.
C18_MarkerOnlyOnFavoritesStarFree ==
    (Formatted /\ NonEmptyList /\ StarFreeInput) => MarkerDiscipline

\* a star-free list with a favorite and a non-favorite
C18_Witness ==
    /\ Formatted
    /\ NonEmptyList
    /\ StarFreeInput
    /\ \E i, j \in 1..Len(Records) :
         Records[i].isFavorite /\ ~Records[j].isFavorite

\* the list has been formatted with its header
FormattedWithHeader == Formatted /\ NonEmptyList /\ IncludeHeaderOf(options)

\* one bookmark line per input record, and a header stating their number
LinePerRecordAndTotal(lines) ==
    LET bs == BookmarkPlaces(lines)
    IN  /\ Cardinality(bs) = Len(Records)
        /\ \A i \in 1..Len(Records) :
             Cardinality({p \in bs :
                 StartsWith(lines[p], PlainLine(Records[i]))}) = 1
        /\ Cardinality({p \in 1..Len(lines) : IsTotalLine(lines[p])}) = 1
        /\ \E p \in 1..Len(lines) :
             lines[p] = TotalPrefix \o Decimal(Len(Records)) \o <<" ", "Found">>

FolderOrPlaceholder(folder) ==
    IF folder = <<>> THEN UnsortedFolder ELSE folder

EmptyInput ==
    \/ bookmarks = Undefined
    \/ bookmarks = Null
    \/ bookmarks.t = "array" /\ Len(bookmarks.v) = 0

\* C20: an empty list, null or undefined gives the fixed empty-state
\* message, with the date range label if one is given, and no heading line,
\* no bookmark line and no total line, whatever includeHeader is.
C20_EmptyStateMessage ==
    (Formatted /\ EmptyInput) =>
        LET lines == BodyLines
        IN  /\ Len(lines) = 3
            /\ \/ lines[1] = <<"WeeklyDigest">>
               \/ /\ options # Undefined
                  /\ options.dateRange.t = "text"
                  /\ lines[1] = <<"WeeklyDigest", " ", "(">>
                                  \o options.dateRange.cs \o <<")">>
            /\ lines[2] = <<>>
            /\ lines[3] = <<"NothingNew">>
            /\ \A p \in 1..Len(lines) :
                 /\ ~IsHeadingLine(lines[p])
                 /\ ~IsBookmarkLine(lines[p])
                 /\ ~IsTotalLine(lines[p])

\* an empty list formatted with includeHeader true and a date range label
C20_Witness ==
    /\ Formatted
    /\ bookmarks.t = "array"
    /\ Len(bookmarks.v) = 0
    /\ options # Undefined
    /\ options.dateRange = RangeLabel
    /\ IncludeHeaderOf(options)

-----------------------------------------------------------------------------
(* The date range of getRecentBookmarks (specification Spec).               *)

\* an argument the caller left out: undefined or null
Omitted(arg) == arg \in {Undefined, Null}

\* the call has computed its `created` parameter
RangeComputed == createdParam # Undefined

\* C14 (as stated): an omitted `to` is the invocation time, an omitted `from`
\* is `to` minus 7 days, so that from <= to always holds in the filter.
C14_FromIsToMinusSevenDays ==
    RangeComputed =>
        /\ Omitted(toDate) => createdParam.to = toISOString(DateOf(now))
        /\ Omitted(fromDate) =>
               createdParam.from.iso = createdParam.to.iso - SevenDays
        /\ Omitted(fromDate) => createdParam.from.iso <= createdParam.to.iso

\* C14 (amended): an omitted `to` is the invocation time and an omitted `from`
\* is the invocation time minus 7 days, whatever `to` is; from <= to holds
\* in the filter when `to` is omitted too or is not older than 7 days.
C14_FromIsNowMinusSevenDays ==
    RangeComputed =>
        /\ Omitted(toDate) => createdParam.to = toISOString(DateOf(now))
        /\ Omitted(fromDate) =>
               createdParam.from = toISOString(DateOf(now - SevenDays))
        /\ (Omitted(fromDate)
              /\ (Omitted(toDate) \/ toDate.ms >= now - SevenDays)) =>
               createdParam.from.iso <= createdParam.to.iso

\* only `to` was supplied, and the first request has been answered
C14_Witness ==
    /\ RangeComputed
    /\ Omitted(fromDate)
    /\ ~Omitted(toDate)
    /\ toDate.ms > now
    /\ pc = "returned"

\* the folder of the record a bookmark line renders
FolderOfLine(line) == Records[RecordOfLine(line)].folder

Terminated == pc \in {"returned", "rejected"}

\* C28: every call of getRecentBookmarks returns or rejects after a bounded
\* number of page requests (at most MaxPage + 1) whatever the upstream
\* answers, when every request is eventually answered; full pages with a
\* count that stays ahead of the records cannot keep the loop running.
C28_TerminatesWithinBound ==
    /\ [](Len(requests) <= MaxPage + 1)
    /\ <>Terminated

\* the call returned at the page limit: every page was full and the count
\* was still ahead of the records
C28_Witness ==
    /\ pc = "returned"
    /\ warned
    /\ Len(requests) = MaxPage + 1
    /\ \A i \in 1..Len(responses) :
         /\ responses[i].length = perPage
         /\ responses[i].count > perPage * (MaxPage + 1)

\* the upstream holds N <= 5000 items, reports count = N on every page and
\* answers every request so far with the items of the page
ConsistentUpstream ==
    /\ upstream.drift = "same"
    /\ upstream.count0 = upstream.held
    /\ upstream.held <= perPage * MaxPage
    /\ rejection = Undefined
    /\ \A i \in 1..Len(responses) : responses[i].form = "array"

\* number of requests up to the one that returns the last item (the one
\* request of an empty upstream)
RequestsToLastItem == Max(1, CeilDiv(upstream.held, perPage))

\* the records of the items that convert, each once, in upstream order
ConvertibleRecords == SurvivorsUpTo(upstream, CeilDiv(upstream.held, perPage))

\* the last item is the last one of a full page
LastPageFull == upstream.held > 0 /\ upstream.held % perPage = 0

\* C29 (as stated): with a consistent upstream of N items the call returns
\* exactly one record per convertible item, in upstream order, and issues no
\* request after the one that returned the last item, also when items of a
\* full page are dropped.
C29_AllRecordsNoExtraRequest ==
    ConsistentUpstream =>
        /\ Len(requests) <= RequestsToLastItem
        /\ pc = "returned" =>
              /\ result = Arr(ConvertibleRecords)
              /\ Len(requests) = RequestsToLastItem

\* C29 (amended): with a consistent upstream of N items the call returns
\* exactly one record per convertible item, in upstream order; it issues no
\* request after the one that returned the last item when that item's page
\* is short or no item was dropped, and exactly one more request, answered
\* with no items, when the last page is full and an item was dropped.
C29_AllRecordsOneExtraRequestAfterDrop ==
    ConsistentUpstream =>
        /\ Len(requests) <= RequestsToLastItem + 1
        /\ Len(requests) > RequestsToLastItem =>
              /\ LastPageFull
              /\ \E i \in 1..RequestsToLastItem :
                     responses[i].kept < responses[i].length
        /\ pc = "returned" =>
              /\ result = Arr(ConvertibleRecords)
              /\ Len(requests) =
                     IF LastPageFull /\ ~NothingDropped
                     THEN RequestsToLastItem + 1
                     ELSE RequestsToLastItem
              /\ Len(requests) > RequestsToLastItem =>
                     responses[Len(responses)].length = 0

\* two full pages whose first items are dropped: a third request is made
C29_Witness ==
    /\ ConsistentUpstream
    /\ pc = "returned"
    /\ upstream.held = 2 * perPage
    /\ ~NothingDropped
    /\ Len(result.v) = 2 * perPage - 2
    /\ requests = <<0, 1, 2>>

-----------------------------------------------------------------------------
(***************************************************************************)
(* The Lambda handler (src/unnamed/part_000), the error handler            *)
(* (src/unnamed/part_001) and the SES client (src/src/ses-client.js).      *)
(*                                                                         *)
(* A message text is the sequence of its words; a run of Japanese text is  *)
(* one word, written in ASCII, and each keyword the classifier looks for   *)
(* is a word of its own:                                                   *)
(*   "KankyoHensu" = 環境変数, "Settei" = 設定, "Meru" = メール,            *)
(*   "Nettowaku" = ネットワーク, "Taimuauto" = タイムアウト;                *)
(*   "Raindrop", "API", "SES", "Network", "timeout" are as in the source.  *)
(***************************************************************************)

\* String.prototype.includes for a keyword
includes(words, keyword) == \E i \in DOMAIN words : words[i] = keyword

\* the texts of `data.errorMessage` and of the message of a foreign error
DetailWords(detail) ==
    CASE detail = "" -> <<>>
      [] detail = "quota" -> <<"quota", "exceeded">>
      [] detail = "socket" -> <<"socket", "hang", "up">>
      [] detail = "api" -> <<"API", "unavailable">>
      [] detail = "settei" -> <<"Settei", "fusei">>
      [] detail = "timeout" -> <<"timeout", "of", "30000ms", "exceeded">>
      [] detail = "ssm" -> <<"ParameterNotFound">>

\* `${message}: ${detail}` when detail is not empty
WithDetail(words, detail) ==
    IF detail = "" THEN words ELSE words \o <<":">> \o DetailWords(detail)

\* the text of the message of an error of RaindropClient
\*   "auth failed"   認証に失敗しました。APIトークンを確認してください。
\*   "forbidden"     アクセスが禁止されています。API権限を確認してください。
\*   "rate limited"  レート制限を超過しました。しばらく待ってから再試行してください。
\*   "server error"  Raindrop.ioサーバーエラーです。しばらく待ってから再試行してください。
\*   "api error"     Raindrop.io APIエラー (status): errorMessage
\*   "network error" ネットワークエラー: Raindrop.io APIに接続できません
\*   "invalid response format"  Raindrop.io APIからの無効なレスポンス形式
\*   "axios error"   the message of an axios error raised before the request
MessageWords(message) ==
    CASE message.text = "auth failed" ->
             <<"NinshoShippai", "API", "TokunKakunin">>
      [] message.text = "forbidden" ->
             <<"AkusesuKinshi", "API", "KengenKakunin">>
      [] message.text = "rate limited" ->
             <<"RetoSeigenChoka", "Saishiko">>
      [] message.text = "server error" ->
             <<"Raindrop", ".io", "SabaEra", "Saishiko">>
      [] message.text = "api error" ->
             WithDetail(<<"Raindrop", ".io", "API", "Era", "(status)">>,
                        message.detail)
      [] message.text = "network error" ->
             <<"Nettowaku", "Era", ":", "Raindrop", ".io", "API",
               "SetsuzokuFuka">>
      [] message.text = "invalid response format" ->
             <<"Raindrop", ".io", "API", "MukoNaResuponsu">>
      [] OTHER -> <<"Request", "setup", "failed">>

ErrorType ==
    {"CONFIGURATION_ERROR", "RAINDROP_API_ERROR", "SES_ERROR",
     "NETWORK_ERROR", "TIMEOUT_ERROR", "UNKNOWN_ERROR"}

ErrorSeverity == {"LOW", "MEDIUM", "HIGH", "CRITICAL"}

\* an Error instance: its class, its `name` and its message
JsError(name, words) == [class |-> "Error", name |-> name, message |-> words]

\* new AppError(message, type, severity)
AppError(words, type, severity) ==
    [class |-> "AppError", name |-> "AppError", message |-> words,
     type |-> type, severity |-> severity]

Classified(type, severity) == [type |-> type, severity |-> severity]

\* classifyError: the classification by message
ClassifyByMessage(words) ==
    IF includes(words, "KankyoHensu") \/ includes(words, "Settei")
    THEN Classified("CONFIGURATION_ERROR", "CRITICAL")
    ELSE IF includes(words, "Raindrop") \/ includes(words, "API")
    THEN Classified("RAINDROP_API_ERROR", "HIGH")
    ELSE IF includes(words, "SES") \/ includes(words, "Meru")
    THEN Classified("SES_ERROR", "HIGH")
    ELSE IF includes(words, "Network") \/ includes(words, "Nettowaku")
    THEN Classified("NETWORK_ERROR", "MEDIUM")
    ELSE IF includes(words, "timeout") \/ includes(words, "Taimuauto")
    THEN Classified("TIMEOUT_ERROR", "MEDIUM")
    ELSE Classified("UNKNOWN_ERROR", "MEDIUM")

\* classifyError: the message first, then the AWS SDK error names
classifyError(err) ==
    CASE err.name \in {"AccessDenied", "UnauthorizedOperation"} ->
             Classified("CONFIGURATION_ERROR", "CRITICAL")
      [] err.name \in {"Throttling", "TooManyRequestsException"} ->
             Classified("RAINDROP_API_ERROR", "MEDIUM")
      [] err.name \in {"MessageRejected", "SendingPausedException"} ->
             Classified("SES_ERROR", "HIGH")
      [] err.name \in {"NetworkingError", "TimeoutError"} ->
             Classified("NETWORK_ERROR", "MEDIUM")
      [] OTHER -> ClassifyByMessage(err.message)

\* ErrorHandler.handleError: an AppError is returned as it is, any other
\* error is wrapped with its classification
errorHandlerHandleError(err) ==
    IF err.class = "AppError"
    THEN err
    ELSE LET c == classifyError(err)
         IN  AppError(err.message, c.type, c.severity)

\* generateErrorResponse answering a mail failure with 504
StatusCodeOfMailTimeout(type) ==
    CASE type = "CONFIGURATION_ERROR" -> 500
      [] type = "RAINDROP_API_ERROR" -> 502
      [] type = "SES_ERROR" -> 504
      [] type \in {"NETWORK_ERROR", "TIMEOUT_ERROR"} -> 503
      [] OTHER -> 500

\* the status code generateErrorResponse gives a type
StatusCodeOf(type) ==
    CASE type = "CONFIGURATION_ERROR" -> 500
      [] type = "RAINDROP_API_ERROR" -> 502
      [] type = "SES_ERROR" -> 502
      [] type \in {"NETWORK_ERROR", "TIMEOUT_ERROR"} -> 503
      [] OTHER -> 500

\* JSON.stringify of a plain object of strings, numbers and booleans, read
\* back by JSON.parse: the text is kept as the object it encodes
Json(object) == [json |-> object]

generateErrorResponse(appError) ==
    [statusCode |-> StatusCodeOf(appError.type),
     body |-> Json([error |-> [type |-> appError.type,
                               severity |-> appError.severity]])]

\* how an awaited call ends
Fulfilled(v) == [ok |-> TRUE, value |-> v]
RejectedWith(e) == [ok |-> FALSE, error |-> e]

\* what the Parameter Store read gives: the three values, each a text, an
\* empty text or absent, or a failed read
ConfigValues == {Str("value"), Str(""), Undefined}
ConfigOutcomes ==
    {[kind |-> "values", RAINDROP_API_TOKEN |-> t, EMAIL_FROM |-> f,
      EMAIL_TO |-> e] : t \in ConfigValues, f \in ConfigValues,
                        e \in ConfigValues}
    \cup {[kind |-> "rejected", detail |-> d] : d \in {"ssm", "api", "timeout"}}

\* the required keys whose value is falsy, in the order of requiredConfig
missingConfig(o) ==
    (IF Truthy(o.RAINDROP_API_TOKEN) THEN <<>> ELSE <<"RAINDROP_API_TOKEN">>)
    \o (IF Truthy(o.EMAIL_FROM) THEN <<>> ELSE <<"EMAIL_FROM">>)
    \o (IF Truthy(o.EMAIL_TO) THEN <<>> ELSE <<"EMAIL_TO">>)

\* the try block of loadConfiguration
\*   "HissuSettei..." 必須設定が取得できませんでした: keys
\*   "Parameter Store ShutokuEra" Parameter Store取得エラー: message
ReadConfiguration(o) ==
    IF o.kind = "rejected"
    THEN RejectedWith(JsError("Error",
             WithDetail(<<"Parameter", "Store", "ShutokuEra">>, o.detail)))
    ELSE IF Len(missingConfig(o)) > 0
    THEN RejectedWith(AppError(<<"Hissu", "Settei", "ShutokuFuka", ":">>
                                   \o missingConfig(o),
                               "CONFIGURATION_ERROR", "CRITICAL"))
    ELSE Fulfilled(o)

\* loadConfiguration with a catch block that rethrows what it caught
loadConfigurationRethrow(o) == ReadConfiguration(o)

\* loadConfiguration: the catch block wraps whatever the try block threw
\*   "Settei ShutokuEra" 設定取得エラー: message
loadConfiguration(o) ==
    LET r == ReadConfiguration(o)
    IN  IF r.ok THEN r
        ELSE RejectedWith(AppError(<<"Settei", "ShutokuEra", ":">>
                                       \o r.error.message,
                                   "CONFIGURATION_ERROR", "CRITICAL"))

\* the errors the SES SDK rejects a send with: a name (or none) and the
\* text of its message
HandledSesNames ==
    {"MessageRejected", "MailFromDomainNotVerified",
     "ConfigurationSetDoesNotExist", "SendingPausedException",
     "AccountSendingPausedException", "InvalidParameterValue",
     "AccessDenied", "UnauthorizedOperation", "Throttling"}
SesErrors ==
    {[name |-> n, detail |-> "socket"] : n \in HandledSesNames}
    \cup {[name |-> n, detail |-> d] :
            n \in {"", "InternalFailure"},
            d \in {"", "socket", "api", "settei", "timeout"}}

\* the message #handleSESError chooses
\*   "Meru SoshinShippai" メール送信に失敗しました
\*   MessageRejected  メッセージが拒否されました。メールアドレスまたは内容を確認してください。
\*   MailFromDomainNotVerified  送信者ドメインが検証されていません。SESでドメインを検証してください。
\*   ConfigurationSetDoesNotExist  指定された設定セットが存在しません。
\*   SendingPausedException  アカウントの送信が一時停止されています。AWSサポートにお問い合わせください。
\*   AccountSendingPausedException  アカウントの送信が無効になっています。AWSサポートにお問い合わせください。
\*   InvalidParameterValue  無効なパラメータが指定されました。メールアドレスや内容を確認してください。
\*   AccessDenied, UnauthorizedOperation  SESへのアクセス権限がありません。IAMロールの設定を確認してください。
\*   Throttling  SESの送信制限に達しました。しばらく待ってから再試行してください。
SesMessage(err) ==
    CASE err.name = "MessageRejected" ->
             <<"MessejiKyohi", "Meru", "AdoresuKakunin">>
      [] err.name = "MailFromDomainNotVerified" ->
             <<"DomeinMikensho", "SES", "DomeinKensho">>
      [] err.name = "ConfigurationSetDoesNotExist" ->
             <<"Shitei", "Settei", "SettoNashi">>
      [] err.name = "SendingPausedException" ->
             <<"SoshinIchijiTeishi", "AWS", "Sapoto">>
      [] err.name = "AccountSendingPausedException" ->
             <<"SoshinMuko", "AWS", "Sapoto">>
      [] err.name = "InvalidParameterValue" ->
             <<"MukoNaParameta", "Meru", "AdoresuKakunin">>
      [] err.name \in {"AccessDenied", "UnauthorizedOperation"} ->
             <<"SES", "AkusesuKengenNashi", "IAM", "Settei", "Kakunin">>
      [] err.name = "Throttling" ->
             <<"SES", "SoshinSeigen", "Saishiko">>
      [] OTHER -> WithDetail(<<"Meru", "SoshinShippai">>, err.detail)

\* #handleSESError: a new Error whose `code` is the name of the SES error
handleSESError(err) ==
    [class |-> "Error", name |-> "Error", message |-> SesMessage(err),
     code |-> IF err.name = "" THEN "UnknownError" ELSE err.name]

\* the error a rejected getRecentBookmarks call hands the handler
FetchError(e) ==
    JsError(IF e.originalError = Undefined /\ e.status = Undefined
               /\ e.message.text = "axios error"
            THEN "AxiosError" ELSE "Error",
            MessageWords(e.message))

\* the catch block of the handler: handleError, then generateErrorResponse
ErrorResponse(err) == generateErrorResponse(errorHandlerHandleError(err))

\* a success response that reports the initial statistics
SuccessResponseInitialStats(bookmarkCount, emailSent, messageId) ==
    [statusCode |-> 200,
     body |-> Json([stats |-> [bookmarkCount |-> 0,
                               emailSent |-> emailSent,
                               messageId |-> messageId]])]

\* the value the handler returns after a successful run
SuccessResponse(bookmarkCount, emailSent, messageId) ==
    [statusCode |-> 200,
     body |-> Json([stats |-> [bookmarkCount |-> bookmarkCount,
                               emailSent |-> emailSent,
                               messageId |-> messageId]])]

\* the upstreams of the handler runs
HandlerUpstreams ==
    [held : {0, 1, perPage, perPage + 1}, count0 : {0, 1, perPage, perPage + 1},
     drift : {"same"}, shape : {"valid", "firstBad", "allBad"}]

InitHandler ==
    /\ upstream \in HandlerUpstreams
    /\ now = 12
    /\ pc = "idle"
    /\ requests = <<>>
    /\ rejection = Undefined
    /\ IdleFetch
    /\ IdleBatch
    /\ IdleItem
    /\ IdleFormat
    /\ handlerPc = "invoked"
    /\ configuration = Undefined
    /\ sends = <<>>
    /\ caught = Undefined
    /\ response = Undefined

\* the handler's range: endDate = new Date(), startDate = endDate with
\* setDate(getDate() - 7)
HandlerStartDate == DateOf(now - SevenDays)
HandlerEndDate == DateOf(now)

\* `await loadConfiguration` resolves: the clients are built and
\* getRecentBookmarks(startDate, endDate) is called
ConfigLoaded ==
    /\ handlerPc = "invoked"
    /\ \E o \in ConfigOutcomes :
          /\ loadConfiguration(o).ok
          /\ configuration' = o
    /\ handlerPc' = "fetching"
    /\ pc' = "start"
    /\ fromDate' = HandlerStartDate
    /\ toDate' = HandlerEndDate
    /\ UNCHANGED <<upstream, now, page, allBookmarks, hasMorePages, requests,
                   responses, converted, result, error, rejection, warned,
                   createdParam>>
    /\ UNCHANGED <<sends, caught, response>>
    /\ UNCHANGED <<batchVars, itemVars, formatVars>>

\* `await loadConfiguration` rejects: the catch block answers
ConfigFailed ==
    /\ handlerPc = "invoked"
    /\ \E o \in ConfigOutcomes :
          /\ ~loadConfiguration(o).ok
          /\ configuration' = o
          /\ caught' = loadConfiguration(o).error
          /\ response' = ErrorResponse(loadConfiguration(o).error)
    /\ handlerPc' = "done"
    /\ UNCHANGED sends
    /\ UNCHANGED <<now, fetchVars, batchVars, itemVars, formatVars>>

\* the steps of the getRecentBookmarks call the handler awaits
FetchStep ==
    /\ handlerPc = "fetching"
    /\ (getRecentBookmarks \/ PageFulfilled \/ PageRejected)

\* a handler that goes on to the send whether the fetch returned or threw
FetchReturnedOrFailed ==
    /\ handlerPc = "fetching"
    /\ pc \in {"returned", "rejected"}
    /\ sends' = Append(sends, [bookmarks |-> Arr(allBookmarks),
                               bookmarkCount |-> Len(allBookmarks),
                               startDate |-> HandlerStartDate,
                               endDate |-> HandlerEndDate])
    /\ handlerPc' = "sending"
    /\ UNCHANGED <<configuration, caught, response>>
    /\ UNCHANGED <<now, fetchVars, batchVars, itemVars, formatVars>>

\* `await getRecentBookmarks` resolves: the count is noted and
\* sendWeeklyDigest(bookmarks, ...) runs up to `await this.sesClient.send`
FetchReturned ==
    /\ handlerPc = "fetching"
    /\ pc = "returned"
    /\ sends' = Append(sends, [bookmarks |-> result,
                               bookmarkCount |-> Len(result.v),
                               startDate |-> HandlerStartDate,
                               endDate |-> HandlerEndDate])
    /\ handlerPc' = "sending"
    /\ UNCHANGED <<configuration, caught, response>>
    /\ UNCHANGED <<now, fetchVars, batchVars, itemVars, formatVars>>

\* `await getRecentBookmarks` rejects: the catch block answers
FetchFailed ==
    /\ handlerPc = "fetching"
    /\ pc = "rejected"
    /\ caught' = FetchError(error)
    /\ response' = ErrorResponse(FetchError(error))
    /\ handlerPc' = "done"
    /\ UNCHANGED <<configuration, sends>>
    /\ UNCHANGED <<now, fetchVars, batchVars, itemVars, formatVars>>

\* the SES send resolves: { success: true, messageId } and the 200 response
SendFulfilled ==
    /\ handlerPc = "sending"
    /\ \E messageId \in {Str("0100018c"), Undefined} :
          response' = SuccessResponse(Len(result.v), TRUE, messageId)
    /\ handlerPc' = "done"
    /\ UNCHANGED <<configuration, sends, caught>>
    /\ UNCHANGED <<now, fetchVars, batchVars, itemVars, formatVars>>

\* the SES send rejects: sendEmail throws #handleSESError(error) and the
\* catch block answers
SendRejected ==
    /\ handlerPc = "sending"
    /\ \E e \in SesErrors :
          /\ caught' = handleSESError(e)
          /\ response' = ErrorResponse(handleSESError(e))
    /\ handlerPc' = "done"
    /\ UNCHANGED <<configuration, sends>>
    /\ UNCHANGED <<now, fetchVars, batchVars, itemVars, formatVars>>

NextHandler ==
    \/ ConfigLoaded
    \/ ConfigFailed
    \/ FetchStep
    \/ FetchReturned
    \/ FetchFailed
    \/ SendFulfilled
    \/ SendRejected

SpecHandler == InitHandler /\ [][NextHandler]_vars

-----------------------------------------------------------------------------
(* Properties of the handler                                               *)

HandlerDone == handlerPc = "done"
ConfigurationLoaded ==
    configuration # Undefined /\ loadConfiguration(configuration).ok
ConfigurationFailed ==
    configuration # Undefined /\ ~loadConfiguration(configuration).ok
FetchSucceeded == pc = "returned"
SendSucceeded == HandlerDone /\ Len(sends) = 1 /\ caught = Undefined
SendFailed == HandlerDone /\ Len(sends) = 1 /\ caught # Undefined
ResponseError == response.body.json.error
ResponseStats == response.body.json.stats

\* C21: the handler always answers with a status code and a JSON body, and
\* never ends without one: the status is 200 exactly when the configuration
\* load, the fetch and the send all succeeded, and one of 500, 502 and 503
\* otherwise.
C21_AlwaysAnswers ==
    /\ handlerPc \in {"invoked", "fetching", "sending", "done"}
    /\ ~HandlerDone => response = Undefined
    /\ HandlerDone =>
          /\ response # Undefined
          /\ DOMAIN response = {"statusCode", "body"}
          /\ DOMAIN response.body = {"json"}
          /\ response.statusCode \in {200, 500, 502, 503}
          /\ response.statusCode = 200 <=>
                 (ConfigurationLoaded /\ FetchSucceeded /\ SendSucceeded)

\* the send failed and the handler answered 502
C21_Witness ==
    /\ HandlerDone
    /\ ConfigurationLoaded
    /\ FetchSucceeded
    /\ SendFailed
    /\ response.statusCode = 502

\* C22: the steps run in the order configuration, fetch, send: a page is
\* requested only after the configuration was loaded, the send is called
\* only after the whole fetch returned and with the list it returned, and a
\* failed fetch is followed by no send.
C22_ConfigThenFetchThenSend ==
    /\ (pc # "idle" \/ requests # <<>>) => ConfigurationLoaded
    /\ sends # <<>> =>
          /\ ConfigurationLoaded
          /\ FetchSucceeded
          /\ sends[Len(sends)].bookmarks = result
    /\ handlerPc = "sending" => sends # <<>>
    /\ pc = "rejected" => sends = <<>>
    /\ ConfigurationFailed => requests = <<>> /\ sends = <<>>

\* a fetch failed on its second page, after records had been accumulated,
\* and the handler has answered
C22_Witness ==
    /\ HandlerDone
    /\ pc = "rejected"
    /\ Len(requests) = 2
    /\ converted = 1
    /\ responses[1].kept > 0
    /\ sends = <<>>

\* C23: when the configuration load and the fetch succeed the send is called
\* exactly once, also for an empty list, and when it succeeds the answer is
\* 200 with emailSent true and bookmarkCount the number of records returned.
C23_OneSendPerSuccessfulFetch ==
    /\ Len(sends) <= 1
    /\ (handlerPc \in {"sending", "done"} /\ FetchSucceeded) =>
          /\ Len(sends) = 1
          /\ sends[1].bookmarkCount = Len(result.v)
    /\ SendSucceeded =>
          /\ response.statusCode = 200
          /\ ResponseStats.emailSent = TRUE
          /\ ResponseStats.bookmarkCount = Len(result.v)

\* a run that found nothing and sent the digest all the same
C23_Witness ==
    /\ SendSucceeded
    /\ Len(result.v) = 0
    /\ response.statusCode = 200
    /\ ResponseStats.bookmarkCount = 0

\* C24: when a configuration value is missing or the configuration cannot be
\* loaded, the answer is 500 with type CONFIGURATION_ERROR and severity
\* CRITICAL whatever the underlying failure, and nothing is fetched or sent.
C24_ConfigurationFailureIs500 ==
    ConfigurationFailed =>
        /\ HandlerDone
        /\ response.statusCode = 500
        /\ ResponseError.type = "CONFIGURATION_ERROR"
        /\ ResponseError.severity = "CRITICAL"
        /\ requests = <<>>
        /\ sends = <<>>

\* the Parameter Store read failed with a message that names the API
C24_Witness ==
    /\ ConfigurationFailed
    /\ configuration.kind = "rejected"
    /\ configuration.detail = "api"
    /\ includes(caught.message, "API")
    /\ HandlerDone

\* C25 (as stated): when the send fails, for each SES error name the client
\* handles and for unknown errors, the answer is 502 with type SES_ERROR.
C25_SendFailureIs502SesError ==
    SendFailed =>
        /\ response.statusCode = 502
        /\ ResponseError.type = "SES_ERROR"

\* C26 (as stated): when the fetch fails with a translated upstream error
\* (401, 403, 429, 500/502/503/504 or no response), the answer is 502 with
\* type RAINDROP_API_ERROR.
TranslatedUpstreamError ==
    /\ pc = "rejected"
    /\ rejection # Undefined
    /\ \/ rejection.hasResponse
          /\ rejection.status \in {401, 403, 429, 500, 502, 503, 504}
       \/ ~rejection.hasResponse /\ rejection.hasRequest
C26_FetchFailureIs502RaindropError ==
    (HandlerDone /\ TranslatedUpstreamError) =>
        /\ response.statusCode = 502
        /\ ResponseError.type = "RAINDROP_API_ERROR"

====
